---------------------------- MODULE Spec2Model ----------------------------
(***************************************************************************)
(* Model of t3-tft.ino: the dashboard of a VW T3 on an ST7735 display.     *)
(*                                                                         *)
(* Readings are floats.  A finite reading is held as an integer number of  *)
(* thousandths (m), standing for the float nearest m/1000; NaN, the        *)
(* infinities and two floats of great magnitude (10^10 and FLT_MAX, with   *)
(* their negatives) are separate kinds.  Texts are sequences of            *)
(* one-character                                                           *)
(* strings.  Colours are the names of the library's ST7735_* constants.    *)
(***************************************************************************)
EXTENDS Integers, Sequences, FiniteSets, TLC

VARIABLES
    pc,        \* position of the single thread of control
    stack,     \* return addresses of the calls in progress
    i,         \* loop variable of fade_backlight
    backlight, \* last duty cycle written to TFT_BL
    data,      \* the global Values data
    counter,   \* update_data's static counter
    bg_cache,  \* the global bg_cache[6]
    screen,    \* what the panel shows in the region of each cell
    buf,       \* draw_cells' char buf[10]
    cell,      \* the block of draw_cells being executed (0..5)
    call,      \* the arguments of the draw_cell call in progress (or last made)
    at_call,   \* bg_cache, screen and the length of log when that call was entered
    log,       \* trace of the calls made since the last update_data
    ref,       \* what is kept of the run so far, for comparison
    img_x,     \* draw_image's loop variable x
    img_y,     \* draw_image's loop variable y
    val,       \* draw_image's val, gray_to_color's v
    glyphs     \* the character boxes the panel shows

vars == <<pc, stack, i, backlight, data, counter, bg_cache, screen, buf, cell,
          call, at_call, log, ref, img_x, img_y, val, glyphs>>

---------------------------------------------------------------------------
(* Bounds of the model *)

\* update_data is followed for this many calls
MaxCounter == 310

\* under fairness the loop is followed for this many executions
MaxLoops == 60

\* test readings lie within this many thousandths of each anchor value
MaxDelta == 1

\* draw_cell is called directly at most this many times in SpecCell
MaxCalls == 3

---------------------------------------------------------------------------
(* Colours, grid, texts *)

ST7735_BLACK  == "BLACK"
ST7735_BLUE   == "BLUE"
ST7735_ORANGE == "ORANGE"
ST7735_RED    == "RED"
ST7735_WHITE  == "WHITE"

\* the background colours draw_cells can pass to draw_cell
Colors == {ST7735_BLACK, ST7735_BLUE, ST7735_ORANGE, ST7735_RED}

\* what the panel shows where no cell background has been painted: the
\* splash picture and its two lines of text
SPLASH == "SPLASH"

TXT_W == 6
TXT_H == 8

TFT_WIDTH  == 128
TFT_HEIGHT == 160

Cells == 0 .. 5

\* sizeof buf in draw_cells
BufSize == 10

UNIT_DEG_C == <<"\\xF7", "C">>
UNIT_BAR   == <<"B", "a", "r">>
ERR        == <<"E", "R", "R">>
T3_NUM_PLATE == <<"S", " ", "N", "N", " ", "3", "1", "5", "H">>

---------------------------------------------------------------------------
(* Readings *)

NAN      == [kind |-> "nan", m |-> 0]
Num(n)   == [kind |-> "num", m |-> n]
INFINITY == [kind |-> "inf", m |-> 1]
NegInf   == [kind |-> "inf", m |-> -1]

\* floats too great to be held in thousandths: Huge(10) is 10^10, Huge(38) is
\* FLT_MAX (about 3.4 * 10^38), Huge(-10) and Huge(-38) their negatives
Huge(e)  == [kind |-> "big", m |-> e]

isnan(v) == v.kind = "nan"

\* v >= t/1000, as C compares a float with a constant that a float holds exactly
GE(v, t) ==
    CASE v.kind = "nan" -> FALSE
      [] v.kind = "inf" -> v.m > 0
      [] v.kind = "big" -> v.m > 0
      [] OTHER          -> v.m >= t

Values_empty ==
    [oil_temp |-> NAN, oil_press |-> NAN, water_temp |-> NAN,
     boost |-> NAN, rpm |-> NAN, volt |-> NAN]

Field == <<"oil_temp", "oil_press", "water_temp", "boost", "rpm", "volt">>

Reading(d, k) == d[Field[k + 1]]

---------------------------------------------------------------------------
(* sprintf("%W.Pf", v) *)

Abs(n) == IF n < 0 THEN -n ELSE n

Digit(d) == <<"0", "1", "2", "3", "4", "5", "6", "7", "8", "9">>[d + 1]

RECURSIVE Digits(_)
Digits(n) == IF n < 10 THEN <<Digit(n)>>
             ELSE Digits(n \div 10) \o <<Digit(n % 10)>>

RECURSIVE Pow2(_)
Pow2(k) == IF k = 0 THEN 1 ELSE 2 * Pow2(k - 1)

RECURSIVE Pow2Mod1000(_)
Pow2Mod1000(k) == IF k = 0 THEN 1 ELSE (2 * Pow2Mod1000(k - 1)) % 1000

\* the binary exponent e of a/1000 (a > 0): 2^e <= a/1000 < 2^(e+1)
RECURSIVE ExpUp(_, _)
ExpUp(a, e) == IF 1000 * Pow2(e + 1) <= a THEN ExpUp(a, e + 1) ELSE e
RECURSIVE ExpDown(_, _)
ExpDown(a, j) == IF a * Pow2(j) >= 1000 THEN -j ELSE ExpDown(a, j + 1)
FloatExp(a) == IF a >= 1000 THEN ExpUp(a, 0) ELSE ExpDown(a, 1)

\* a/1000 scaled to a 24-bit significand leaves this remainder (in 1/1000 of
\* the last place): 0 when a float holds a/1000 exactly, above 500 when the
\* nearest float is the next one up
FloatRem(a) == ((a % 1000) * Pow2Mod1000(23 - FloatExp(a))) % 1000

\* |value| rounded to an integer as printf rounds the float: to nearest, a
\* tie (x.5, which a float holds exactly) to even
Round0(a) ==
    LET q == a \div 1000
        r == a % 1000
    IN  IF r < 500 THEN q
        ELSE IF r > 500 THEN q + 1
        ELSE IF q % 2 = 0 THEN q ELSE q + 1

\* |value| rounded to tenths as printf rounds the float: when a/1000 lies
\* halfway between two tenths, the float nearest a/1000 decides (it is the
\* float that is printed), and only an exactly held tie goes to even
Round1(a) ==
    LET t == a \div 100
        r == a % 100
    IN  IF r < 50 THEN t
        ELSE IF r > 50 THEN t + 1
        ELSE IF a > 0 /\ FloatRem(a) = 0 THEN (IF t % 2 = 0 THEN t ELSE t + 1)
        ELSE IF a > 0 /\ FloatRem(a) > 500 THEN t + 1
        ELSE t

Pad(width, s) ==
    IF Len(s) >= width THEN s
    ELSE [j \in 1 .. (width - Len(s)) |-> " "] \o s

\* the digits printf gives for 10^10 (e = 10) and for FLT_MAX (e = 38), both
\* of which a float holds exactly
HugeDigits(e) ==
    IF e = 10 THEN <<"1", "0", "0", "0", "0", "0", "0", "0", "0", "0", "0">>
    ELSE <<"3", "4", "0", "2", "8", "2", "3", "4", "6", "6", "3", "8", "5",
           "2", "8", "8", "5", "9", "8", "1", "1", "7", "0", "4", "1", "8",
           "3", "4", "8", "4", "5", "1", "6", "9", "2", "5", "4", "4", "0">>

\* a format without its field width, "%.<prec>f"
sprintf_NoWidth(width, prec, v) ==
    CASE v.kind = "nan" -> <<"n", "a", "n">>
      [] v.kind = "inf" -> (IF v.m < 0 THEN <<"-">> ELSE <<>>) \o <<"i", "n", "f">>
      [] v.kind = "big" ->
            (IF v.m < 0 THEN <<"-">> ELSE <<>>) \o HugeDigits(Abs(v.m))
                \o (IF prec = 0 THEN <<>> ELSE <<".", "0">>)
      [] OTHER ->
            LET a    == Abs(v.m)
                sign == IF v.m < 0 THEN <<"-">> ELSE <<>>
            IN  sign \o (IF prec = 0 THEN Digits(Round0(a))
                         ELSE Digits(Round1(a) \div 10) \o <<".">>
                                  \o <<Digit(Round1(a) % 10)>>)

\* the text sprintf(buf, "%<width>.<prec>f", v) writes; its length is the
\* value sprintf returns
sprintf(width, prec, v) ==
    CASE v.kind = "nan" -> Pad(width, <<"n", "a", "n">>)
      [] v.kind = "inf" ->
            Pad(width, (IF v.m < 0 THEN <<"-">> ELSE <<>>) \o <<"i", "n", "f">>)
      [] v.kind = "big" ->
            Pad(width, (IF v.m < 0 THEN <<"-">> ELSE <<>>) \o HugeDigits(Abs(v.m))
                           \o (IF prec = 0 THEN <<>> ELSE <<".", "0">>))
      [] OTHER ->
            LET a    == Abs(v.m)
                sign == IF v.m < 0 THEN <<"-">> ELSE <<>>
                body == IF prec = 0 THEN Digits(Round0(a))
                        ELSE Digits(Round1(a) \div 10) \o <<".">>
                                 \o <<Digit(Round1(a) % 10)>>
            IN  Pad(width, sign \o body)

---------------------------------------------------------------------------
(* Trace entries *)

EvFillScreen(c)            == <<"fillScreen", c>>
EvFillRect(x, y, w, h, c)  == <<"fillRect", x, y, w, h, c>>
EvPrint(size, x, y, s, fg, bg) == <<"print", size, x, y, s, fg, bg>>
EvAnalogWrite(v)           == <<"analogWrite", v>>
EvDelay(ms)                == <<"delay", ms>>
EvDrawImage                == <<"draw_image">>
EvUpdateData               == <<"update_data">>
EvRead(index, w)           == <<"t3_pic", index, w>>
EvDrawPixel(px, py, c)     == <<"drawPixel", px, py, c>>
EvGrayToColor(v, c)        == <<"gray_to_color", v, c>>
EvDrawCell(c) ==
    <<"draw_cell", c.pos_x, c.pos_y, c.bg, c.val, c.label, c.unit>>

---------------------------------------------------------------------------
(* Characters on the panel *)

\* a character the panel shows: <<x, y, size, character, background>>; it
\* takes the box of 6*size by 8*size pixels at (x, y)
GlyphBox(g) == <<g[1], g[2], 6 * g[3], 8 * g[3]>>

\* the characters tft.print draws for the text s with the cursor at (cx, cy)
PrintGlyphs(size, cx, cy, s, bg) ==
    { <<cx + (j - 1) * 6 * size, cy, size, s[j], bg>> : j \in 1 .. Len(s) }

\* what is left of a character of which a part has been painted over
Damaged(g) == <<g[1], g[2], g[3], "damaged", g[5]>>

---------------------------------------------------------------------------
(* setup *)

Init ==
    /\ pc = "setup"
    /\ stack = <<>>
    /\ i = 0
    /\ backlight = 0
    /\ data = Values_empty
    /\ counter = 0
    /\ bg_cache = [k \in Cells |-> ST7735_BLACK]
    /\ screen = [k \in Cells |-> ST7735_BLACK]
    /\ buf = <<>>
    /\ cell = 0
    /\ call = [unit |-> <<>>, val |-> <<>>, label |-> <<>>,
               bg |-> ST7735_BLACK, pos_x |-> 0, pos_y |-> 0]
    /\ at_call = [cache |-> bg_cache, screen |-> screen, loglen |-> 0]
    /\ log = <<>>
    /\ ref = <<>>
    /\ img_x = 0
    /\ img_y = 0
    /\ val = 0
    /\ glyphs = {}

\* setup, lines 70-74: pinMode, initR, fillScreen(ST7735_BLACK)
SetupInit ==
    /\ pc = "setup"
    /\ screen' = [k \in Cells |-> ST7735_BLACK]
    /\ log' = Append(log, EvFillScreen(ST7735_BLACK))
    /\ glyphs' = {}
    /\ pc' = "draw_splashscreen"
    /\ UNCHANGED <<img_x, img_y, val,
                   stack, i, backlight, data, counter, bg_cache, buf, cell,
                   call, at_call, ref>>

\* the picture covers rows 24..134 of the panel over its whole width, and
\* the two lines of text lie in rows 5..20 and 140..155: every cell's region
\* shows part of the splash
draw_splashscreen ==
    /\ pc = "draw_splashscreen"
    /\ screen' = [k \in Cells |-> SPLASH]
    /\ log' = log \o
          << EvDrawImage,
             EvPrint(2, TFT_WIDTH \div 2 - TXT_W * 5, 5,
                     <<"V", "W", " ", "T", "3">>, ST7735_WHITE, "NONE"),
             EvPrint(2, (TFT_WIDTH - (TXT_W * 2 * 9)) \div 2 - 2, 140,
                     T3_NUM_PLATE, ST7735_WHITE, "NONE") >>
    /\ glyphs' =
          PrintGlyphs(2, TFT_WIDTH \div 2 - TXT_W * 5, 5,
                      <<"V", "W", " ", "T", "3">>, "NONE")
          \cup PrintGlyphs(2, (TFT_WIDTH - (TXT_W * 2 * 9)) \div 2 - 2, 140,
                           T3_NUM_PLATE, "NONE")
    /\ pc' = "fade_in"
    /\ i' = 0
    /\ UNCHANGED <<img_x, img_y, val,
                   stack, backlight, data, counter, bg_cache, buf, cell,
                   call, at_call, ref>>

\* a fade that takes `up` the wrong way round
fade_backlight_Inverted(up, duration, here, next) ==
    /\ pc = here
    /\ i <= 255
    /\ backlight' = (IF up THEN 255 - i ELSE i)
    /\ log' = log \o << EvAnalogWrite(IF up THEN 255 - i ELSE i),
                        EvDelay(duration \div 255) >>
    /\ IF i = 255 THEN i' = 0 /\ pc' = next
                  ELSE i' = i + 1 /\ pc' = here
    /\ UNCHANGED <<img_x, img_y, val, glyphs,
                   stack, data, counter, bg_cache, screen, buf, cell, call,
                   at_call, ref>>

\* one iteration of fade_backlight's loop; the last one returns to setup
fade_backlight(up, duration, here, next) ==
    /\ pc = here
    /\ i <= 255
    /\ backlight' = (IF up THEN i ELSE 255 - i)
    /\ log' = log \o << EvAnalogWrite(IF up THEN i ELSE 255 - i),
                        EvDelay(duration \div 255) >>
    /\ IF i = 255 THEN i' = 0 /\ pc' = next
                  ELSE i' = i + 1 /\ pc' = here
    /\ UNCHANGED <<img_x, img_y, val, glyphs,
                   stack, data, counter, bg_cache, screen, buf, cell, call,
                   at_call, ref>>

FadeIn  == fade_backlight(TRUE, 2000, "fade_in", "hold")

Hold ==
    /\ pc = "hold"
    /\ log' = Append(log, EvDelay(3000))
    /\ pc' = "fade_out"
    /\ UNCHANGED <<img_x, img_y, val, glyphs,
                   stack, i, backlight, data, counter, bg_cache, screen, buf,
                   cell, call, at_call, ref>>

FadeOut == fade_backlight(FALSE, 1000, "fade_out", "clear")

ClearScreen ==
    /\ pc = "clear"
    /\ screen' = [k \in Cells |-> ST7735_BLACK]
    /\ log' = Append(log, EvFillScreen(ST7735_BLACK))
    /\ glyphs' = {}
    /\ pc' = "loop"
    /\ UNCHANGED <<img_x, img_y, val,
                   stack, i, backlight, data, counter, bg_cache, buf, cell,
                   call, at_call, ref>>

---------------------------------------------------------------------------
(* draw_image and gray_to_color *)

\* a conversion that does not cut v down to its low four bits
gray_to_color_NoMask(v) ==
    LET five_bit == ((v * 31) \div 15) % 65536
        six_bit  == ((v * 63) \div 15) % 65536
    IN  (five_bit * 2048 + six_bit * 32 + five_bit) % 65536

\* the uint16_t gray_to_color returns
gray_to_color(v) ==
    LET l        == v % 16
        five_bit == (l * 31) \div 15
        six_bit  == (l * 63) \div 15
    IN  (five_bit * 2048 + six_bit * 32 + five_bit) % 65536

\* the nibbles of a word with the lowest drawn first
Nibbles_LowFirst(w) ==
    << w % 16, (w \div 16) % 16, (w \div 256) % 16, (w \div 4096) % 16 >>

\* val4, val3, val2, val1 of draw_image: the nibbles of val in the order in
\* which their pixels are drawn
Nibbles(w) ==
    LET val1 == w % 16
        val2 == (w \div 16) % 16
        val3 == (w \div 256) % 16
        val4 == (w \div 4096) % 16
    IN  <<val4, val3, val2, val1>>

\* words t3_pic may hold; the picture itself is not part of the source file,
\* so every word read is any of these
Words == {0, 4660, 33825, 61455, 65535}

\* one iteration of draw_image's inner loop, lines 130-138, and the step of
\* the two loops; the last iteration returns
DrawImageStep ==
    /\ pc = "draw_image"
    /\ img_y < 111 /\ img_x < 32
    /\ LET h        == 111
           y_offset == (TFT_HEIGHT - h) \div 2
       IN  \E w \in Words :
              /\ val' = w
              /\ log' = << EvRead(img_y * 32 + img_x, w),
                           EvDrawPixel(img_x * 4, img_y + y_offset,
                                       gray_to_color(Nibbles(w)[1])),
                           EvDrawPixel(img_x * 4 + 1, img_y + y_offset,
                                       gray_to_color(Nibbles(w)[2])),
                           EvDrawPixel(img_x * 4 + 2, img_y + y_offset,
                                       gray_to_color(Nibbles(w)[3])),
                           EvDrawPixel(img_x * 4 + 3, img_y + y_offset,
                                       gray_to_color(Nibbles(w)[4])) >>
    /\ ref' = [reads |-> ref.reads + 1, pixels |-> ref.pixels + 4]
    /\ IF img_x + 1 < 32
       THEN img_x' = img_x + 1 /\ img_y' = img_y /\ pc' = pc
       ELSE /\ img_x' = 0
            /\ img_y' = img_y + 1
            /\ pc' = IF img_y + 1 < 111 THEN pc ELSE Head(stack)
    /\ UNCHANGED <<stack, i, backlight, data, counter, bg_cache, screen, buf,
                   cell, call, at_call, glyphs>>

\* a call gray_to_color(val) on its own
GrayToColor ==
    /\ pc = "gray_to_color"
    /\ log' = <<EvGrayToColor(val, gray_to_color(val))>>
    /\ pc' = Head(stack)
    /\ UNCHANGED <<stack, i, backlight, data, counter, bg_cache, screen, buf,
                   cell, call, at_call, ref, img_x, img_y, val, glyphs>>

---------------------------------------------------------------------------
(* update_data: the placeholder value source *)

\* the readings update_data stores when its counter is c (c >= 5)
DummyValues(c) ==
    [oil_temp |->
        LET tick == c % 300
        IN  IF tick < 150 THEN Num((-20 + tick) * 1000)
            ELSE Num((130 - (tick - 150)) * 1000),
     oil_press |->
        LET tick == (c \div 2) % 100
        IN  IF tick < 50 THEN Num(tick * 100)
            ELSE Num(5000 - (tick - 50) * 100),
     water_temp |->
        LET tick == (c \div 7) % 40
        IN  IF tick < 20 THEN Num((40 + tick) * 1000)
            ELSE Num((60 - (tick - 20)) * 1000),
     boost |->
        LET tick == (c \div 20) % 2
        IN  IF tick = 1 THEN NAN ELSE Num(900),
     rpm |->
        \* range_diff = 1800/14.0 = 128.57..., (int)(range_diff*2) = 257
        LET tick == c % 257
            raw  == IF 14 * tick < 1800 THEN 950 + tick * 14
                    ELSE 2750 - (14 * tick - 1800)
        IN  Num(((raw \div 25) * 25) * 1000),
     volt |->
        LET tick == c % 2
        IN  IF tick # 0 THEN Num(12000) ELSE Num(12100)]

\* update_data without its first five idle calls
update_data_NoWarmup(d, c) == DummyValues(c)

\* update_data with seven idle calls
update_data_WarmupSeven(d, c) == IF c < 7 THEN d ELSE DummyValues(c)

\* the readings after update_data has run with counter c
update_data(d, c) == IF c < 5 THEN d ELSE DummyValues(c)

\* loop, lines 95-97: update_data(data), then the call of draw_cells(data)
UpdateData ==
    /\ pc = "loop"
    /\ counter < MaxCounter
    /\ data' = update_data(data, counter)
    /\ counter' = counter + 1
    /\ log' = <<EvUpdateData>>
    /\ pc' = "draw_cells"
    /\ cell' = 0
    /\ stack' = <<"analogWrite">> \o stack
    /\ UNCHANGED <<img_x, img_y, val, glyphs,
                   i, backlight, bg_cache, screen, buf, call, at_call, ref>>

\* a loop that switches the backlight off
AnalogWrite_Off ==
    /\ pc = "analogWrite"
    /\ backlight' = 0
    /\ log' = Append(log, EvAnalogWrite(0))
    /\ pc' = "delay"
    /\ UNCHANGED <<img_x, img_y, val, glyphs,
                   stack, i, data, counter, bg_cache, screen, buf, cell, call,
                   at_call, ref>>

\* loop, line 100
AnalogWrite ==
    /\ pc = "analogWrite"
    /\ backlight' = 255
    /\ log' = Append(log, EvAnalogWrite(255))
    /\ pc' = "delay"
    /\ UNCHANGED <<img_x, img_y, val, glyphs,
                   stack, i, data, counter, bg_cache, screen, buf, cell, call,
                   at_call, ref>>

\* loop, line 102
Delay ==
    /\ pc = "delay"
    /\ log' = Append(log, EvDelay(50))
    /\ pc' = "loop"
    /\ UNCHANGED <<img_x, img_y, val, glyphs,
                   stack, i, backlight, data, counter, bg_cache, screen, buf,
                   cell, call, at_call, ref>>

---------------------------------------------------------------------------
(* draw_cells *)

\* block k of draw_cells draws the cell at (PosX(k), PosY(k))
PosX(k) == k % 2
PosY(k) == k \div 2

FmtWidth(k) == IF k \in {0, 1, 2, 3} THEN 3 ELSE 4
FmtPrec(k)  == IF k \in {0, 2, 4} THEN 0 ELSE 1

Label(k) ==
    CASE k = 0 -> <<"O", "I", "L">>
      [] k = 1 -> <<>>
      [] k = 2 -> <<"W", "A", "T", "E", "R">>
      [] k = 3 -> <<"B", "O", "O", "S", "T">>
      [] k = 4 -> <<"R", "P", "M">>
      [] k = 5 -> <<"V", "O", "L", "T">>

Unit(k) ==
    CASE k \in {0, 2} -> UNIT_DEG_C
      [] k \in {1, 3} -> UNIT_BAR
      [] k = 4        -> <<>>
      [] k = 5        -> <<"V">>

\* a ladder whose warn threshold for the oil temperature is exclusive
Ladder_Exclusive(k, v) ==
    CASE k = 0 ->
            IF GE(v, 115000) THEN ST7735_RED
            ELSE IF GE(v, 100001) THEN ST7735_ORANGE
            ELSE IF GE(v, 50000) THEN ST7735_BLACK
            ELSE ST7735_BLUE
      [] k = 1 ->
            IF GE(v, 2500) THEN ST7735_RED ELSE ST7735_BLACK
      [] k = 2 ->
            IF GE(v, 100000) THEN ST7735_RED
            ELSE IF GE(v, 90000) THEN ST7735_ORANGE
            ELSE IF GE(v, 50000) THEN ST7735_BLACK
            ELSE ST7735_BLUE
      [] OTHER -> ST7735_BLACK

\* a ladder whose tests for the oil temperature run in the wrong order, so
\* that the warn colour overwrites the alert colour
Ladder_Reordered(k, v) ==
    CASE k = 0 ->
            LET c0 == ST7735_BLUE
                c1 == IF GE(v, 50000) THEN ST7735_BLACK ELSE c0
                c2 == IF GE(v, 115000) THEN ST7735_RED ELSE c1
            IN  IF GE(v, 100000) THEN ST7735_ORANGE ELSE c2
      [] k = 1 ->
            IF GE(v, 2500) THEN ST7735_RED ELSE ST7735_BLACK
      [] k = 2 ->
            IF GE(v, 100000) THEN ST7735_RED
            ELSE IF GE(v, 90000) THEN ST7735_ORANGE
            ELSE IF GE(v, 50000) THEN ST7735_BLACK
            ELSE ST7735_BLUE
      [] OTHER -> ST7735_BLACK

\* a ladder whose warn threshold for the water temperature is 95
Ladder_WaterWarnLate(k, v) ==
    CASE k = 0 ->
            IF GE(v, 115000) THEN ST7735_RED
            ELSE IF GE(v, 100000) THEN ST7735_ORANGE
            ELSE IF GE(v, 50000) THEN ST7735_BLACK
            ELSE ST7735_BLUE
      [] k = 1 ->
            IF GE(v, 2500) THEN ST7735_RED ELSE ST7735_BLACK
      [] k = 2 ->
            IF GE(v, 100000) THEN ST7735_RED
            ELSE IF GE(v, 95000) THEN ST7735_ORANGE
            ELSE IF GE(v, 50000) THEN ST7735_BLACK
            ELSE ST7735_BLUE
      [] OTHER -> ST7735_BLACK

\* the colour the threshold ladder of block k leaves in `color`
Ladder(k, v) ==
    CASE k = 0 ->
            LET c0 == ST7735_BLUE
                c1 == IF GE(v, 50000) THEN ST7735_BLACK ELSE c0
                c2 == IF GE(v, 100000) THEN ST7735_ORANGE ELSE c1
            IN  IF GE(v, 115000) THEN ST7735_RED ELSE c2
      [] k = 1 ->
            IF GE(v, 2500) THEN ST7735_RED ELSE ST7735_BLACK
      [] k = 2 ->
            LET c0 == ST7735_BLUE
                c1 == IF GE(v, 50000) THEN ST7735_BLACK ELSE c0
                c2 == IF GE(v, 90000) THEN ST7735_ORANGE ELSE c1
            IN  IF GE(v, 100000) THEN ST7735_RED ELSE c2
      [] OTHER -> ST7735_BLACK

\* the test without its isnan part
FormatFailed_NoNan(k, ret, v) == ret # FmtWidth(k)

\* the test  ret != W | isnan(v)
FormatFailed(k, ret, v) == (ret # FmtWidth(k)) \/ isnan(v)

\* what block k leaves in buf
CellText(k, v) ==
    LET s == sprintf(FmtWidth(k), FmtPrec(k), v)
    IN  IF FormatFailed(k, Len(s), v) THEN ERR ELSE s

\* an error test that leaves the colour of the ladder
CellColor_ErrKeepsColor(k, v) == Ladder(k, v)

\* what block k leaves in color
CellColor(k, v) ==
    LET s == sprintf(FmtWidth(k), FmtPrec(k), v)
    IN  IF FormatFailed(k, Len(s), v) THEN ST7735_RED ELSE Ladder(k, v)

\* the first statement of block `cell` of draw_cells: sprintf(buf, "%W.Pf", v).
\* A text that, with its terminator, is longer than buf is written past the
\* end of buf, into the stack frames of draw_cells and its callers: the
\* behaviour is undefined, and the run either goes on as if buf had held the
\* text or ends in a fault
CellFormat ==
    /\ pc = "draw_cells"
    /\ cell \in Cells
    /\ buf' = sprintf(FmtWidth(cell), FmtPrec(cell), Reading(data, cell))
    /\ IF Len(buf') + 1 > BufSize
       THEN pc' \in {"format_check", "fault"}
       ELSE pc' = "format_check"
    /\ UNCHANGED <<stack, i, backlight, data, counter, bg_cache, screen, cell,
                   call, at_call, log, ref, img_x, img_y, val, glyphs>>

\* the rest of block `cell` of draw_cells up to its call of draw_cell
CellBlock ==
    /\ pc = "format_check"
    /\ cell \in Cells
    /\ LET v == Reading(data, cell)
       IN  /\ buf' = CellText(cell, v)
           /\ call' = [unit |-> Unit(cell), val |-> CellText(cell, v),
                       label |-> Label(cell), bg |-> CellColor(cell, v),
                       pos_x |-> PosX(cell), pos_y |-> PosY(cell)]
    /\ log' = Append(log, EvDrawCell(call'))
    /\ at_call' = [cache |-> bg_cache, screen |-> screen, loglen |-> Len(log) + 1]
    /\ pc' = "draw_cell"
    /\ stack' = <<"draw_cells">> \o stack
    /\ UNCHANGED <<img_x, img_y, val, glyphs,
                   i, backlight, data, counter, bg_cache, screen, cell, ref>>

\* draw_cells returns after its sixth block
DrawCellsReturn ==
    /\ pc = "draw_cells"
    /\ cell = 6
    /\ pc' = Head(stack)
    /\ stack' = Tail(stack)
    /\ UNCHANGED <<img_x, img_y, val, glyphs,
                   i, backlight, data, counter, bg_cache, screen, buf, cell,
                   call, at_call, log, ref>>

---------------------------------------------------------------------------
(* draw_cell and draw_bg *)

\* an index with the coordinates exchanged
CacheIndex_Transposed(pos_x, pos_y) == pos_x * 2 + pos_y

\* an index without the factor of the row
CacheIndex_NoStride(pos_x, pos_y) == pos_y + pos_x

CacheIndex(pos_x, pos_y) == pos_y * 2 + pos_x

\* rows of one height, each starting at its label's row less 5
draw_bg_EqualRows(pos_x, pos_y) == <<64 * pos_x, 50 * pos_y + 5, 64, 50>>

\* the rectangle draw_bg fills: <<x, y, w, h>>
draw_bg(pos_x, pos_y) ==
    LET w == 64
        x == 64 * pos_x
    IN  IF pos_y = 0 THEN <<x, 0, w, 5 + 50>>
        ELSE IF pos_y = 1 THEN <<x, 55, w, 50>>
        ELSE <<x, 105, w, 5 + 50>>

Inside(r, q) ==
    /\ q[1] <= r[1] /\ r[1] + r[3] <= q[1] + q[3]
    /\ q[2] <= r[2] /\ r[2] + r[4] <= q[2] + q[4]

Overlap(r, q) ==
    /\ r[1] < q[1] + q[3] /\ q[1] < r[1] + r[3]
    /\ r[2] < q[2] + q[4] /\ q[2] < r[2] + r[4]

\* the panel after fillRect(r, c): a cell region wholly inside r shows c, a
\* region r covers in part no longer shows one background
fillRect(scr, r, c) ==
    [k \in Cells |->
        IF Inside(draw_bg(PosX(k), PosY(k)), r) THEN c
        ELSE IF Overlap(draw_bg(PosX(k), PosY(k)), r) THEN SPLASH
        ELSE scr[k]]

\* the characters left after fillRect(r): one inside r is gone, one that r
\* covers in part is damaged
FillGlyphs(gl, r) ==
    {g \in gl : ~ Overlap(GlyphBox(g), r)}
        \cup {Damaged(g) : g \in {h \in gl : Overlap(GlyphBox(h), r)
                                              /\ ~ Inside(GlyphBox(h), r)}}

\* the characters left after a print with a background colour, e being its
\* trace entry: each character drawn paints its whole box, so a character
\* that was in a box is gone, and one that a box covers in part is damaged
Paint(gl, e) ==
    LET new == PrintGlyphs(e[2], e[3], e[4], e[5], e[7])
        hit(g) == \E n \in new : Overlap(GlyphBox(g), GlyphBox(n))
        gone(g) == \E n \in new : Inside(GlyphBox(g), GlyphBox(n))
    IN  {g \in gl : ~ hit(g)}
            \cup {Damaged(g) : g \in {h \in gl : hit(h) /\ ~ gone(h)}}
            \cup new

\* a comparison that always asks for a repaint
CacheMiss_Always(bg, cache, pos_x, pos_y) == TRUE

\* draw_cell, line 253: the comparison with the cache
CacheMiss(bg, cache, pos_x, pos_y) == bg # cache[CacheIndex(pos_x, pos_y)]

\* draw_cell, lines 253-254: the test and, on a miss, draw_bg
DrawCellEnter ==
    /\ pc = "draw_cell"
    /\ IF CacheMiss(call.bg, bg_cache, call.pos_x, call.pos_y)
       THEN LET r == draw_bg(call.pos_x, call.pos_y)
            IN  /\ screen' = fillRect(screen, r, call.bg)
                /\ glyphs' = FillGlyphs(glyphs, r)
                /\ log' = Append(log, EvFillRect(r[1], r[2], r[3], r[4], call.bg))
                /\ pc' = "cache_write"
       ELSE /\ pc' = "draw_text"
            /\ UNCHANGED <<screen, log, glyphs>>
    /\ UNCHANGED <<img_x, img_y, val,
                   stack, i, backlight, data, counter, bg_cache, buf, cell,
                   call, at_call, ref>>

\* draw_cell without the write of line 255
CacheWrite_Skipped ==
    /\ pc = "cache_write"
    /\ pc' = "draw_text"
    /\ UNCHANGED <<img_x, img_y, val, glyphs,
                   stack, i, backlight, data, counter, bg_cache, screen, buf,
                   cell, call, at_call, log, ref>>

\* draw_cell, line 255
CacheWrite ==
    /\ pc = "cache_write"
    /\ bg_cache' = [bg_cache EXCEPT ![CacheIndex(call.pos_x, call.pos_y)] = call.bg]
    /\ pc' = "draw_text"
    /\ UNCHANGED <<img_x, img_y, val, glyphs,
                   stack, i, backlight, data, counter, screen, buf, cell, call,
                   at_call, log, ref>>

\* prints whose unit starts one character too far to the right
CellPrints_UnitBeyond(c) ==
    LET val_len  == Len(c.val)
        label_x  == 64 * c.pos_x + 5
        label_y  == 50 * c.pos_y + 10
        val_x    == label_x
        val_y    == label_y + 14
        unit_x   == val_x + (val_len + 1) * TXT_W * 2
        unit_y   == val_y + TXT_H - 1
    IN  << EvPrint(1, label_x, label_y, c.label, ST7735_WHITE, c.bg),
           EvPrint(1, unit_x, unit_y, c.unit, ST7735_WHITE, c.bg),
           EvPrint(2, val_x, val_y, c.val, ST7735_WHITE, c.bg) >>

\* the three texts draw_cell prints, lines 258-282, in the order printed
CellPrints(c) ==
    LET unit_len == Len(c.unit)
        val_len  == Len(c.val)
        label_x  == 64 * c.pos_x + 5
        label_y  == 50 * c.pos_y + 10
        val_x    == label_x
        val_y    == label_y + 14
        unit_x   == val_x + val_len * TXT_W * 2
        unit_y   == val_y + TXT_H - 1
    IN  << EvPrint(1, label_x, label_y, c.label, ST7735_WHITE, c.bg),
           EvPrint(1, unit_x, unit_y, c.unit, ST7735_WHITE, c.bg),
           EvPrint(2, val_x, val_y, c.val, ST7735_WHITE, c.bg) >>

\* draw_cell, lines 258-283, and the return to the caller
DrawText ==
    /\ pc = "draw_text"
    /\ log' = log \o CellPrints(call)
    /\ glyphs' = Paint(Paint(Paint(glyphs, CellPrints(call)[1]),
                             CellPrints(call)[2]), CellPrints(call)[3])
    /\ pc' = Head(stack)
    /\ stack' = Tail(stack)
    /\ cell' = IF Head(stack) = "draw_cells" THEN cell + 1 ELSE cell
    /\ UNCHANGED <<img_x, img_y, val,
                   i, backlight, data, counter, bg_cache, screen, buf, call,
                   at_call, ref>>

---------------------------------------------------------------------------
(* The program: setup once, then loop for ever *)

Next ==
    \/ SetupInit
    \/ draw_splashscreen
    \/ FadeIn
    \/ Hold
    \/ FadeOut
    \/ ClearScreen
    \/ UpdateData
    \/ CellFormat
    \/ CellBlock
    \/ DrawCellEnter
    \/ CacheWrite
    \/ DrawText
    \/ DrawCellsReturn
    \/ AnalogWrite
    \/ Delay

Spec == Init /\ [][Next]_vars

\* the head of loop within the executions followed under fairness
UpdateDataLive == counter < MaxLoops /\ UpdateData

NextLive ==
    \/ SetupInit
    \/ draw_splashscreen
    \/ FadeIn
    \/ Hold
    \/ FadeOut
    \/ ClearScreen
    \/ UpdateDataLive
    \/ CellFormat
    \/ CellBlock
    \/ DrawCellEnter
    \/ CacheWrite
    \/ DrawText
    \/ DrawCellsReturn
    \/ AnalogWrite
    \/ Delay

\* the one thread of control always takes its next step: the core calls loop
\* for ever and every call made in setup and loop returns
SpecLive == Init /\ [][NextLive]_vars /\ WF_vars(NextLive)

---------------------------------------------------------------------------
(* One call of draw_cells on any reading set *)

\* readings at which the formatter or a threshold ladder changes its answer,
\* and the readings of the end-to-end scenario
Anchors ==
    { 0, 900, 1000, 2450, 2500, 9900, 9950, 10000, 12100, 49500, 50000, 85000,
      89500, 90000, 99500, 99900, 99950, 100000, 114500, 115000, 120000,
      999000, 999500,
      1000000, 1234000, 2000000, 9999000, 9999500, 10000000,
      -50, -9900, -9950, -10000, -99000, -99500, -100000, -999000, -999500,
      -1000000 }

\* the readings in thousandths format to at most 8 characters, which buf
\* holds together with the terminator; the texts of the four last ones are
\* longer than buf
TestValues ==
    { Num(a + d) : a \in Anchors, d \in (-MaxDelta) .. MaxDelta }
        \cup {NAN, INFINITY, NegInf}
        \cup {Huge(10), Huge(-10), Huge(38), Huge(-38)}

\* the reading set of the spec's end-to-end scenario
Scenario ==
    [oil_temp |-> Num(120000), oil_press |-> Num(1000),
     water_temp |-> Num(85000), boost |-> NAN, rpm |-> Num(2000000),
     volt |-> Num(12100)]

\* a reading set none of whose values fits its field
Overflowing ==
    [oil_temp |-> Num(1234000), oil_press |-> Num(-1000),
     water_temp |-> Num(-100000), boost |-> Num(10000), rpm |-> Num(10000000),
     volt |-> Huge(10)]

Contexts == {Values_empty, Scenario, Overflowing}

\* the reading sets draw_cells is run on: a context with any one reading
\* replaced by any test value
Inputs ==
    Contexts \cup
    { [c EXCEPT ![Field[k + 1]] = v] : c \in Contexts, k \in Cells, v \in TestValues }

InitCells ==
    /\ pc = "draw_cells"
    /\ stack = <<"done">>
    /\ i = 0
    /\ backlight = 255
    /\ data \in Inputs
    /\ counter = 0
    /\ \E c \in Colors : bg_cache = [k \in Cells |-> c]
    /\ screen = bg_cache
    /\ buf = <<>>
    /\ cell = 0
    /\ call = [unit |-> <<>>, val |-> <<>>, label |-> <<>>,
               bg |-> ST7735_BLACK, pos_x |-> 0, pos_y |-> 0]
    /\ at_call = [cache |-> bg_cache, screen |-> screen, loglen |-> 0]
    /\ log = <<>>
    /\ ref = <<>>
    /\ img_x = 0
    /\ img_y = 0
    /\ val = 0
    /\ glyphs = {}

NextCells ==
    \/ CellFormat
    \/ CellBlock
    \/ DrawCellEnter
    \/ CacheWrite
    \/ DrawText
    \/ DrawCellsReturn

SpecCells == InitCells /\ [][NextCells]_vars

---------------------------------------------------------------------------
(* draw_cell called with any colour for any cell, a bounded number of times *)

InitCell ==
    /\ pc = "idle"
    /\ stack = <<>>
    /\ i = 0
    /\ backlight = 255
    /\ data = Values_empty
    /\ counter = 0
    /\ bg_cache = [k \in Cells |-> ST7735_BLACK]
    /\ screen = bg_cache
    /\ buf = <<>>
    /\ cell = 0
    /\ call = [unit |-> <<>>, val |-> <<>>, label |-> <<>>,
               bg |-> ST7735_BLACK, pos_x |-> 0, pos_y |-> 0]
    /\ at_call = [cache |-> bg_cache, screen |-> screen, loglen |-> 0]
    /\ log = <<>>
    /\ ref = <<>>
    /\ img_x = 0
    /\ img_y = 0
    /\ val = 0
    /\ glyphs = {}

\* a call draw_cell(unit, val, label, bg, pos_x, pos_y): the texts are those of
\* the cell, the value text "ERR" on red and a text of the field's width
\* otherwise
CallDrawCell ==
    /\ pc = "idle"
    /\ Cardinality({n \in 1 .. Len(log) : log[n][1] = "draw_cell"}) < MaxCalls
    /\ \E k \in Cells, bg \in Colors :
          call' = [unit |-> Unit(k),
                   val |-> IF bg = ST7735_RED THEN ERR
                           ELSE sprintf(FmtWidth(k), FmtPrec(k), Num(1000)),
                   label |-> Label(k), bg |-> bg,
                   pos_x |-> PosX(k), pos_y |-> PosY(k)]
    /\ buf' = call'.val
    /\ log' = Append(log, EvDrawCell(call'))
    /\ at_call' = [cache |-> bg_cache, screen |-> screen, loglen |-> Len(log) + 1]
    /\ pc' = "draw_cell"
    /\ stack' = <<"idle">> \o stack
    /\ UNCHANGED <<img_x, img_y, val, glyphs,
                   i, backlight, data, counter, bg_cache, screen, cell, ref>>

NextCell ==
    \/ CallDrawCell
    \/ DrawCellEnter
    \/ CacheWrite
    \/ DrawText

SpecCell == InitCell /\ [][NextCell]_vars

---------------------------------------------------------------------------
(* draw_cells run twice from one cache, on two reading sets that agree on one
   reading *)

PairValues ==
    { NAN, INFINITY, Num(900), Num(2500), Num(45000), Num(95000),
      Num(2000000), Num(-100000) }

InitPair ==
    /\ pc = "draw_cells"
    /\ stack = <<"done">>
    /\ i = 0
    /\ backlight = 255
    /\ \E k \in Cells, v \in PairValues, c1 \in Contexts, c2 \in Contexts :
          /\ data = [c1 EXCEPT ![Field[k + 1]] = v]
          /\ \E c \in Colors :
                ref = [first |-> <<>>, data |-> data,
                       other |-> [c2 EXCEPT ![Field[k + 1]] = v],
                       cache |-> [n \in Cells |-> c]]
    /\ counter = 0
    /\ bg_cache = ref.cache
    /\ screen = bg_cache
    /\ buf = <<>>
    /\ cell = 0
    /\ call = [unit |-> <<>>, val |-> <<>>, label |-> <<>>,
               bg |-> ST7735_BLACK, pos_x |-> 0, pos_y |-> 0]
    /\ at_call = [cache |-> bg_cache, screen |-> screen, loglen |-> 0]
    /\ log = <<>>
    /\ img_x = 0
    /\ img_y = 0
    /\ val = 0
    /\ glyphs = {}

\* the first run is over: keep its trace, put the cache and the panel back
\* and call draw_cells on the other reading set
SecondRun ==
    /\ pc = "done"
    /\ ref.first = <<>>
    /\ ref' = [ref EXCEPT !.first = log]
    /\ data' = ref.other
    /\ bg_cache' = ref.cache
    /\ screen' = ref.cache
    /\ glyphs' = {}
    /\ log' = <<>>
    /\ pc' = "draw_cells"
    /\ cell' = 0
    /\ stack' = <<"done">>
    /\ UNCHANGED <<img_x, img_y, val,
                   i, backlight, counter, buf, call, at_call>>

NextPair ==
    \/ CellFormat
    \/ CellBlock
    \/ DrawCellEnter
    \/ CacheWrite
    \/ DrawText
    \/ DrawCellsReturn
    \/ SecondRun

SpecPair == InitPair /\ [][NextPair]_vars

---------------------------------------------------------------------------
(* The loop fed with any sequence of reading sets *)

Uniform(v) ==
    [oil_temp |-> v, oil_press |-> v, water_temp |-> v, boost |-> v,
     rpm |-> v, volt |-> v]

\* readings that between them give every cell each of its colours and each
\* length of its value text
FrameValues ==
    { NAN, INFINITY, NegInf, Huge(10),
      Num(-100000), Num(-15000), Num(900), Num(2500), Num(12100), Num(45000),
      Num(85000), Num(95000), Num(99600), Num(105000), Num(120000),
      Num(950000), Num(2000000), Num(10000000) }

FrameInputs == Contexts \cup {Uniform(v) : v \in FrameValues}

\* the state in which setup leaves the program
InitFrames ==
    /\ pc = "loop"
    /\ stack = <<>>
    /\ i = 0
    /\ backlight = 0
    /\ data = Values_empty
    /\ counter = 0
    /\ bg_cache = [k \in Cells |-> ST7735_BLACK]
    /\ screen = bg_cache
    /\ buf = <<>>
    /\ cell = 0
    /\ call = [unit |-> <<>>, val |-> <<>>, label |-> <<>>,
               bg |-> ST7735_BLACK, pos_x |-> 0, pos_y |-> 0]
    /\ at_call = [cache |-> bg_cache, screen |-> screen, loglen |-> 0]
    /\ log = <<>>
    /\ ref = <<>>
    /\ img_x = 0
    /\ img_y = 0
    /\ val = 0
    /\ glyphs = {}

\* loop, lines 95-97, with a value source that stores any reading set; the
\* trace of the frame before is kept
FeedData ==
    /\ pc = "loop"
    /\ data' \in FrameInputs
    /\ ref' = log
    /\ log' = <<EvUpdateData>>
    /\ pc' = "draw_cells"
    /\ cell' = 0
    /\ stack' = <<"analogWrite">> \o stack
    /\ UNCHANGED <<i, backlight, counter, bg_cache, screen, buf, call, at_call,
                   img_x, img_y, val, glyphs>>

NextFrames ==
    \/ FeedData
    \/ CellFormat
    \/ CellBlock
    \/ DrawCellEnter
    \/ CacheWrite
    \/ DrawText
    \/ DrawCellsReturn
    \/ AnalogWrite
    \/ Delay

SpecFrames == InitFrames /\ [][NextFrames]_vars

---------------------------------------------------------------------------
(* draw_image run once on any picture *)

InitImage ==
    /\ pc = "draw_image"
    /\ stack = <<"done">>
    /\ i = 0
    /\ backlight = 0
    /\ data = Values_empty
    /\ counter = 0
    /\ bg_cache = [k \in Cells |-> ST7735_BLACK]
    /\ screen = bg_cache
    /\ buf = <<>>
    /\ cell = 0
    /\ call = [unit |-> <<>>, val |-> <<>>, label |-> <<>>,
               bg |-> ST7735_BLACK, pos_x |-> 0, pos_y |-> 0]
    /\ at_call = [cache |-> bg_cache, screen |-> screen, loglen |-> 0]
    /\ log = <<>>
    /\ ref = [reads |-> 0, pixels |-> 0]
    /\ img_x = 0
    /\ img_y = 0
    /\ val = 0
    /\ glyphs = {}

NextImage == DrawImageStep

SpecImage == InitImage /\ [][NextImage]_vars

---------------------------------------------------------------------------
(* gray_to_color called once with any 16-bit argument *)

InitGray ==
    /\ pc = "gray_to_color"
    /\ stack = <<"done">>
    /\ i = 0
    /\ backlight = 0
    /\ data = Values_empty
    /\ counter = 0
    /\ bg_cache = [k \in Cells |-> ST7735_BLACK]
    /\ screen = bg_cache
    /\ buf = <<>>
    /\ cell = 0
    /\ call = [unit |-> <<>>, val |-> <<>>, label |-> <<>>,
               bg |-> ST7735_BLACK, pos_x |-> 0, pos_y |-> 0]
    /\ at_call = [cache |-> bg_cache, screen |-> screen, loglen |-> 0]
    /\ log = <<>>
    /\ ref = <<>>
    /\ img_x = 0
    /\ img_y = 0
    /\ val \in 0 .. 65535
    /\ glyphs = {}

NextGray == GrayToColor

SpecGray == InitGray /\ [][NextGray]_vars

---------------------------------------------------------------------------
(* Reading the trace *)

IsDrawCell(e) == e[1] = "draw_cell"
IsFillRect(e) == e[1] = "fillRect"

\* the draw_cell calls of the trace, in order:
\* <<"draw_cell", pos_x, pos_y, bg, val, label, unit>>
DrawCellCalls == SelectSeq(log, IsDrawCell)

\* block k of draw_cells has made its call of draw_cell
Rendered(k) == k + 1 <= Len(DrawCellCalls)
RenderedColor(k) == DrawCellCalls[k + 1][4]
RenderedText(k)  == DrawCellCalls[k + 1][5]
RenderedLabel(k) == DrawCellCalls[k + 1][6]

RECURSIVE Strip(_)
Strip(t) == IF t # <<>> /\ Head(t) = " " THEN Strip(Tail(t)) ELSE t

\* t is w characters: spaces, then at least one character, none a space
LeftPadded(t, w) ==
    /\ Len(t) = w
    /\ \E j \in 0 .. (w - 1) :
          /\ \A n \in 1 .. j : t[n] = " "
          /\ \A n \in (j + 1) .. w : t[n] # " "

---------------------------------------------------------------------------
(* Claims about draw_cells, checked under SpecCells *)

\* C1: a cell is drawn with the text "ERR" on ST7735_RED when its reading is
\* NaN or its formatted text is not as long as the field is wide (3 for
\* oil_temp, oil_press, water_temp and boost, 4 for rpm and volt), whatever
\* the threshold ladder had chosen, and a cell shows "ERR" in no other case.
C1_ErrIffNanOrWrongLength ==
    \A k \in Cells :
        Rendered(k) =>
            LET v   == Reading(data, k)
                w   == IF k \in {0, 1, 2, 3} THEN 3 ELSE 4
                p   == IF k \in {0, 2, 4} THEN 0 ELSE 1
                bad == isnan(v) \/ Len(sprintf(w, p, v)) # w
            IN  /\ bad => RenderedText(k) = ERR /\ RenderedColor(k) = ST7735_RED
                /\ RenderedText(k) = ERR => bad

\* C1's case: an oil temperature of -100 (four characters; the ladder says
\* blue) and a NaN boost have both been drawn as "ERR" on red
C1_Witness ==
    /\ pc = "done"
    /\ data.oil_temp = Num(-100000)
    /\ Ladder(0, data.oil_temp) = ST7735_BLUE
    /\ RenderedText(0) = ERR /\ RenderedColor(0) = ST7735_RED
    /\ isnan(data.boost)
    /\ RenderedText(3) = ERR /\ RenderedColor(3) = ST7735_RED

\* the band of a reading, as the threshold tables give it
Band(k, v) ==
    CASE k = 0 -> IF GE(v, 115000) THEN ST7735_RED
                  ELSE IF GE(v, 100000) THEN ST7735_ORANGE
                  ELSE IF GE(v, 50000) THEN ST7735_BLACK
                  ELSE ST7735_BLUE
      [] k = 1 -> IF GE(v, 2500) THEN ST7735_RED ELSE ST7735_BLACK
      [] k = 2 -> IF GE(v, 100000) THEN ST7735_RED
                  ELSE IF GE(v, 90000) THEN ST7735_ORANGE
                  ELSE IF GE(v, 50000) THEN ST7735_BLACK
                  ELSE ST7735_BLUE
      [] OTHER -> ST7735_BLACK

\* C2: a cell that is not drawn as an error has the colour of the highest
\* threshold at or below its reading, lower bounds inclusive: oil_temp blue,
\* black from 50, orange from 100, red from 115; water_temp blue, black from
\* 50, orange from 90, red from 100; oil_press black, red from 2.5; boost,
\* rpm and volt black.
C2_ColorIsBand ==
    \A k \in Cells :
        (Rendered(k) /\ RenderedText(k) # ERR) =>
            RenderedColor(k) = Band(k, Reading(data, k))

\* C2's case: an oil temperature of 99.999 has been drawn, as "100" on black
C2_Witness ==
    /\ pc = "done"
    /\ data.oil_temp = Num(99999)
    /\ RenderedText(0) = <<"1", "0", "0">>
    /\ RenderedColor(0) = ST7735_BLACK

\* the cells of the end-to-end scenario, with the colour given for OIL
ScenarioCells(oil) ==
    /\ RenderedLabel(0) = <<"O", "I", "L">>
    /\ Strip(RenderedText(0)) = <<"1", "2", "0">>
    /\ RenderedColor(0) = oil
    /\ RenderedLabel(1) = <<>>
    /\ Strip(RenderedText(1)) = <<"1", ".", "0">>
    /\ RenderedColor(1) = ST7735_BLACK
    /\ RenderedLabel(2) = <<"W", "A", "T", "E", "R">>
    /\ Strip(RenderedText(2)) = <<"8", "5">>
    /\ RenderedColor(2) = ST7735_BLACK
    /\ RenderedLabel(3) = <<"B", "O", "O", "S", "T">>
    /\ RenderedText(3) = ERR
    /\ RenderedColor(3) = ST7735_RED
    /\ RenderedLabel(4) = <<"R", "P", "M">>
    /\ Strip(RenderedText(4)) = <<"2", "0", "0", "0">>
    /\ RenderedColor(4) = ST7735_BLACK
    /\ RenderedLabel(5) = <<"V", "O", "L", "T">>
    /\ Strip(RenderedText(5)) = <<"1", "2", ".", "1">>
    /\ RenderedColor(5) = ST7735_BLACK

\* C7 as stated: the scenario's readings are drawn as OIL "120" on orange,
\* "1.0" on black, WATER "85" on black, BOOST "ERR" on red, RPM "2000" on
\* black, VOLT "12.1" on black (texts compared without their padding).
C7_Original ==
    (pc = "done" /\ data = Scenario) => ScenarioCells(ST7735_ORANGE)

\* C7 amended: as stated, but OIL "120" is drawn on red, 120 being at or above
\* the alert threshold of 115.
C7_ScenarioOilRed ==
    (pc = "done" /\ data = Scenario) => ScenarioCells(ST7735_RED)

\* C7's case: draw_cells has drawn the scenario's readings
C7_Witness ==
    /\ pc = "done"
    /\ data = Scenario
    /\ Len(DrawCellCalls) = 6
    /\ RenderedColor(0) = ST7735_RED

\* the readings a field of width w with p decimals can show
InRange(k, v) ==
    /\ v.kind = "num"
    /\ CASE k \in {0, 2} -> -99000 <= v.m /\ v.m <= 999000
         [] k \in {1, 3} -> 0 <= v.m /\ v.m <= 9900
         [] k = 4        -> -999000 <= v.m /\ v.m <= 9999000
         [] k = 5        -> -9900 <= v.m /\ v.m <= 99900

\* C9: a defined reading within its field's range (3 wide with 0 decimals for
\* the temperatures, 3 wide with 1 for oil_press and boost, 4 wide with 0 for
\* rpm, 4 wide with 1 for volt) is not drawn as "ERR", and the text passed to
\* draw_cell is exactly as long as the field is wide, left-padded with spaces.
C9_InRangeFormats ==
    \A k \in Cells :
        (Rendered(k) /\ InRange(k, Reading(data, k))) =>
            /\ RenderedText(k) # ERR
            /\ LeftPadded(RenderedText(k), IF k \in {0, 1, 2, 3} THEN 3 ELSE 4)

\* C9's case: a water temperature of 85 has been drawn as " 85" and a voltage
\* of 12.1 as "12.1"
C9_Witness ==
    /\ pc = "done"
    /\ data.water_temp = Num(85000)
    /\ RenderedText(2) = <<" ", "8", "5">>
    /\ data.volt = Num(12100)
    /\ RenderedText(5) = <<"1", "2", ".", "1">>

---------------------------------------------------------------------------
(* Claims about draw_cell, checked under SpecCell *)

IsPrint(e) == e[1] = "print"

\* what the call of draw_cell last entered has added to the trace
CallEvents == SubSeq(log, at_call.loglen + 1, Len(log))

\* the region of the cell in column x and row y: <<x, y, w, h>>
Region(x, y) ==
    CASE y = 0 -> <<64 * x, 0, 64, 55>>
      [] y = 1 -> <<64 * x, 55, 64, 50>>
      [] y = 2 -> <<64 * x, 105, 64, 55>>

\* C3: a call of draw_cell whose bg equals bg_cache[pos_y*2+pos_x] fills no
\* background and leaves the cache as it was; a call whose bg differs makes
\* exactly one fillRect, of the region of cell (pos_x, pos_y) alone, sets that
\* cache entry to bg and leaves the other five; in both cases the label, the
\* unit and the value are printed.
C3_DrawCellEffect ==
    (pc = "idle" /\ log # <<>>) =>
        LET idx    == call.pos_y * 2 + call.pos_x
            fills  == SelectSeq(CallEvents, IsFillRect)
            prints == SelectSeq(CallEvents, IsPrint)
            r      == Region(call.pos_x, call.pos_y)
        IN  /\ call.bg = at_call.cache[idx] =>
                  /\ fills = <<>>
                  /\ bg_cache = at_call.cache
                  /\ screen = at_call.screen
            /\ call.bg # at_call.cache[idx] =>
                  /\ fills = <<EvFillRect(r[1], r[2], r[3], r[4], call.bg)>>
                  /\ bg_cache = [at_call.cache EXCEPT ![idx] = call.bg]
                  /\ screen = [at_call.screen EXCEPT ![idx] = call.bg]
            /\ Len(prints) = 3
            /\ prints[1][5] = call.label
            /\ prints[2][5] = call.unit
            /\ prints[3][5] = call.val

\* C3's case: a call has repainted cell (1, 2) alone, an earlier call having
\* left another colour in the cache
C3_Witness ==
    /\ pc = "idle"
    /\ call.pos_x = 1 /\ call.pos_y = 2
    /\ call.bg = ST7735_BLUE
    /\ at_call.cache[5] = ST7735_RED
    /\ bg_cache[5] = ST7735_BLUE
    /\ Len(SelectSeq(CallEvents, IsFillRect)) = 1

\* the places of the draw_cell calls in the trace
Markers == {n \in 1 .. Len(log) : IsDrawCell(log[n])}
ColorOf(n) == log[n][4]
SameCell(n1, n2) == log[n1][2] = log[n2][2] /\ log[n1][3] = log[n2][3]

\* n1 and n2 are renders of one cell with no render of that cell between them
InARow(n1, n2) ==
    /\ n1 < n2
    /\ SameCell(n1, n2)
    /\ ~ \E n \in Markers : n1 < n /\ n < n2 /\ SameCell(n1, n)

\* the number of background fills of the render at n
Fills(n) ==
    LET after == {n2 \in Markers : n2 > n}
        last  == IF after = {} THEN Len(log)
                 ELSE (CHOOSE n2 \in after : \A n3 \in after : n2 <= n3) - 1
    IN  Cardinality({j \in (n + 1) .. last : IsFillRect(log[j])})

\* the colour the cache holds for the cell when the render at n begins
CacheBefore(n) ==
    IF \E n0 \in Markers : InARow(n0, n)
    THEN ColorOf(CHOOSE n0 \in Markers : InARow(n0, n))
    ELSE ST7735_BLACK

\* C5 as stated: two renders in a row of a cell with one colour c make exactly
\* one background fill between them, and a following render with another
\* colour makes one more.
C5_Original ==
    pc = "idle" =>
        \A n1, n2 \in Markers :
            (InARow(n1, n2) /\ ColorOf(n1) = ColorOf(n2)) =>
                /\ Fills(n1) + Fills(n2) = 1
                /\ \A n3 \in Markers :
                      (InARow(n2, n3) /\ ColorOf(n3) # ColorOf(n2)) =>
                          Fills(n3) = 1

\* C5 amended: of two renders in a row of a cell with one colour c the second
\* makes no background fill, and the first makes one exactly when the cache
\* did not already hold c for the cell (none when it did, as for black at the
\* start); a following render with another colour makes exactly one fill.
C5_SecondRenderSkips ==
    pc = "idle" =>
        \A n1, n2 \in Markers :
            (InARow(n1, n2) /\ ColorOf(n1) = ColorOf(n2)) =>
                /\ Fills(n2) = 0
                /\ Fills(n1) = (IF CacheBefore(n1) # ColorOf(n1) THEN 1 ELSE 0)
                /\ \A n3 \in Markers :
                      (InARow(n2, n3) /\ ColorOf(n3) # ColorOf(n2)) =>
                          Fills(n3) = 1

\* C5's case: a cell was rendered with red twice, then with blue
C5_Witness ==
    /\ pc = "idle"
    /\ \E n1, n2, n3 \in Markers :
          /\ InARow(n1, n2) /\ InARow(n2, n3)
          /\ ColorOf(n1) = ST7735_RED /\ ColorOf(n2) = ST7735_RED
          /\ ColorOf(n3) = ST7735_BLUE
          /\ Fills(n1) = 1 /\ Fills(n2) = 0 /\ Fills(n3) = 1

---------------------------------------------------------------------------
(* Claim about two runs of draw_cells, checked under SpecPair *)

\* what the k-th call of draw_cell (from 0) added to trace t: the call with
\* its arguments, the fillRect if any, and the three prints with their places
CellEvents(t, k) ==
    LET ms    == {n \in 1 .. Len(t) : IsDrawCell(t[n])}
        from  == CHOOSE n \in ms : Cardinality({n2 \in ms : n2 < n}) = k
        after == {n \in ms : n > from}
        to    == IF after = {} THEN Len(t)
                 ELSE (CHOOSE n \in after : \A n2 \in after : n <= n2) - 1
    IN  SubSeq(t, from, to)

\* C8: for two reading sets that agree on reading k, and one prior cache, the
\* text, the colour, the fill decision and the places drawn of cell k are the
\* same in both runs of draw_cells, whatever the other five readings are.
C8_CellDependsOnOwnReading ==
    (pc = "done" /\ ref.first # <<>>) =>
        \A k \in Cells :
            Reading(ref.data, k) = Reading(data, k) =>
                CellEvents(ref.first, k) = CellEvents(log, k)

\* C8's case: both runs are over; the boost readings agree and are valid, the
\* other five readings were all NaN in the first run and all overflowing in
\* the second
C8_Witness ==
    /\ pc = "done"
    /\ ref.first # <<>>
    /\ ref.data = [Values_empty EXCEPT !.boost = Num(900)]
    /\ data = [Overflowing EXCEPT !.boost = Num(900)]
    /\ CellEvents(log, 3)[1][5] = <<"0", ".", "9">>

---------------------------------------------------------------------------
(* Claims about the program, checked under Spec *)

SetupPcs == {"setup", "draw_splashscreen", "fade_in", "hold", "fade_out", "clear"}

CacheIsOnScreen == \A k \in Cells : bg_cache[k] = screen[k]

\* C4 as stated: in every state from the start of the program, except between
\* the fillRect and the cache write of one draw_cell call, each entry of
\* bg_cache is the background colour the panel shows in the cell's region.
C4_Original == pc # "cache_write" => CacheIsOnScreen

\* C4 amended: the same, in every state from the return of setup on (while
\* setup shows the splash screen the regions hold the picture and its texts,
\* not the black of the cache).
C4_CacheIsOnScreenAfterSetup ==
    (pc \notin SetupPcs /\ pc # "cache_write") => CacheIsOnScreen

\* C4's case: in the loop, draw_cell has just repainted the OIL cell from red
\* to blue and written the cache
C4_Witness ==
    /\ pc = "draw_text"
    /\ call.pos_x = 0 /\ call.pos_y = 0
    /\ at_call.cache[0] = ST7735_RED
    /\ bg_cache[0] = ST7735_BLUE
    /\ screen[0] = ST7735_BLUE

\* C6: in the first execution of loop after setup each of the six cells gets
\* a background fill.
C6_FirstFrameFillsAll ==
    (counter = 1 /\ pc \in {"analogWrite", "delay", "loop"}) =>
        LET fills == SelectSeq(log, IsFillRect)
        IN  \A k \in Cells :
                Cardinality({n \in 1 .. Len(fills) :
                    <<fills[n][2], fills[n][3], fills[n][4], fills[n][5]>>
                        = Region(PosX(k), PosY(k))}) = 1

\* C6's case: the first execution of loop has drawn its cells
C6_Witness ==
    /\ counter = 1
    /\ pc = "delay"
    /\ Len(SelectSeq(log, IsFillRect)) = 6

\* a trace entry without its coordinates and colours
Outline(e) == IF IsPrint(e) THEN <<"print", e[5]>> ELSE e

\* the steps of one fade: 256 writes, each followed by its delay
Ramp(up, ms) ==
    [n \in 1 .. 512 |->
        IF n % 2 = 1
        THEN EvAnalogWrite(IF up THEN (n - 1) \div 2 ELSE 255 - (n - 1) \div 2)
        ELSE EvDelay(ms)]

\* what setup does, in order
SetupTrace ==
    << EvFillScreen(ST7735_BLACK),
       EvDrawImage,
       <<"print", <<"V", "W", " ", "T", "3">> >>,
       <<"print", <<"S", " ", "N", "N", " ", "3", "1", "5", "H">> >> >>
    \o Ramp(TRUE, 7)
    \o << EvDelay(3000) >>
    \o Ramp(FALSE, 3)
    \o << EvFillScreen(ST7735_BLACK) >>

IsPrefix(t, u) == Len(t) <= Len(u) /\ t = SubSeq(u, 1, Len(t))

\* C10: setup runs once and makes, in this order and each once, the splash
\* paint (picture and two lines of text), the backlight ramp from 0 up to 255,
\* the hold, the ramp from 255 down to 0 and the final clear to black; no cell
\* is drawn and update_data is not called before that clear, and nothing of
\* setup is done again in the loop.
C10_SetupSequence ==
    LET outline == [n \in 1 .. Len(log) |-> Outline(log[n])]
    IN  /\ pc \in SetupPcs => (IsPrefix(outline, SetupTrace) /\ counter = 0)
        /\ (pc = "loop" /\ counter = 0) => outline = SetupTrace
        /\ (pc \notin SetupPcs /\ ~(pc = "loop" /\ counter = 0)) =>
              \A n \in 1 .. Len(log) :
                  log[n][1] \notin {"fillScreen", "draw_image"}
                  /\ log[n] # EvDelay(3000)

\* C10's case: setup has returned, the panel is black and the backlight off
C10_Witness ==
    /\ pc = "loop"
    /\ counter = 0
    /\ backlight = 0
    /\ Len(log) = 1030
    /\ \A k \in Cells : screen[k] = ST7735_BLACK

---------------------------------------------------------------------------
(* Claims about the loop, checked under SpecLive *)

\* a trace entry of one frame without its texts, colours and places; the
\* background fills are left out
FrameStep(e) ==
    IF IsDrawCell(e) THEN <<"draw_cell", e[2], e[3]>>
    ELSE IF IsPrint(e) THEN <<"print">>
    ELSE e

NotFillRect(e) == ~ IsFillRect(e)

FrameSteps ==
    LET t == SelectSeq(log, NotFillRect)
    IN  [n \in 1 .. Len(t) |-> FrameStep(t[n])]

CellSteps(x, y) == << <<"draw_cell", x, y>>, <<"print">>, <<"print">>, <<"print">> >>

\* what one execution of loop does, in order
FrameTrace ==
    << <<"update_data">> >>
    \o CellSteps(0, 0) \o CellSteps(1, 0) \o CellSteps(0, 1)
    \o CellSteps(1, 1) \o CellSteps(0, 2) \o CellSteps(1, 2)
    \o << <<"analogWrite", 255>>, <<"delay", 50>> >>

\* every execution of loop is, as far as it has got, the frame in its order,
\* and the backlight is at 255 when it waits
FrameInOrder ==
    /\ (pc \notin SetupPcs /\ counter >= 1) => IsPrefix(FrameSteps, FrameTrace)
    /\ (pc = "loop" /\ counter >= 1) => FrameSteps = FrameTrace
    /\ pc = "delay" => backlight = 255

\* C11: every execution of loop makes, in this order, one update of the
\* readings, one render of the six cells (0,0), (1,0), (0,1), (1,1), (0,2),
\* (1,2), one write of 255 to the backlight and one wait; the backlight is at
\* 255 during every such wait; and each execution of loop is followed by
\* another: every wait is followed by a return to the head of loop, and from
\* the head of loop the next execution reaches its wait (as far as the model
\* follows the counter).
C11_LoopForEver ==
    /\ [] FrameInOrder
    /\ (pc = "delay") ~> (pc = "loop")
    /\ (pc = "loop" /\ counter < MaxLoops) ~> (pc = "delay")

\* C11's case: the loop is in the wait of its 50th execution, all six cells
\* drawn and the backlight at 255
C11_Witness ==
    /\ pc = "delay"
    /\ counter = 50
    /\ backlight = 255
    /\ Len(DrawCellCalls) = 6

---------------------------------------------------------------------------
(* Claims about the geometry of the cells, checked under SpecCell *)

GridCells == {<<x, y>> : x \in 0 .. 1, y \in 0 .. 2}

\* the pixel (px, py) lies in rectangle r = <<x, y, w, h>>
PixelIn(px, py, r) ==
    /\ r[1] <= px /\ px < r[1] + r[3]
    /\ r[2] <= py /\ py < r[2] + r[4]

\* the rectangles draw_bg fills are the table's
BgIsTable == \A c \in GridCells : draw_bg(c[1], c[2]) = Region(c[1], c[2])

\* no two of draw_bg's rectangles share a pixel
BgDisjoint ==
    \A c, d \in GridCells :
        c # d => ~ Overlap(draw_bg(c[1], c[2]), draw_bg(d[1], d[2]))

\* every pixel of the display lies in exactly one of draw_bg's rectangles, and
\* the rectangles hold no pixel outside the display
BgCoversDisplay ==
    /\ \A px \in 0 .. (TFT_WIDTH - 1), py \in 0 .. (TFT_HEIGHT - 1) :
          Cardinality({c \in GridCells : PixelIn(px, py, draw_bg(c[1], c[2]))}) = 1
    /\ \A c \in GridCells :
          Inside(draw_bg(c[1], c[2]), <<0, 0, TFT_WIDTH, TFT_HEIGHT>>)

\* the cache index is a different entry of bg_cache[6] for each cell
IndexDistinct ==
    /\ \A c \in GridCells : CacheIndex(c[1], c[2]) \in 0 .. 5
    /\ \A c, d \in GridCells :
          c # d => CacheIndex(c[1], c[2]) # CacheIndex(d[1], d[2])

\* C12: the background regions are a fixed table: 64 wide at x = 64*column;
\* row 0 is y 0..54, row 1 is y 55..104, row 2 is y 105..159.  The six regions
\* are pairwise disjoint and cover the 128x160 display, the cache index
\* row*2+column is a different value of 0..5 for each cell, and every
\* background fill draw_cell makes is the region of the cell it was called for.
C12_RegionTable ==
    /\ BgIsTable
    /\ BgDisjoint
    /\ BgCoversDisplay
    /\ IndexDistinct
    /\ \A n \in 1 .. Len(log) :
          IsFillRect(log[n]) =>
              \E m \in Markers :
                  /\ m < n
                  /\ \A m2 \in Markers : m2 < n => m2 <= m
                  /\ <<log[n][2], log[n][3], log[n][4], log[n][5]>>
                        = Region(log[m][2], log[m][3])
                  /\ CacheIndex(log[m][2], log[m][3]) = log[m][3] * 2 + log[m][2]

\* C12's case: the backgrounds of a cell of the middle row and of a cell of
\* the bottom row have been filled
C12_Witness ==
    /\ pc = "idle"
    /\ \E n1, n2 \in 1 .. Len(log) :
          /\ log[n1] = EvFillRect(64, 55, 64, 50, ST7735_ORANGE)
          /\ log[n2] = EvFillRect(0, 105, 64, 55, ST7735_BLUE)

---------------------------------------------------------------------------
(* Claim about draw_image, checked under SpecImage *)

\* C13: draw_image reads the 32x111 words of the picture once each, in the
\* order of their indices, and draws the four nibbles of the n-th word, the
\* most significant first, at x = 4*(n mod 32) + 0..3 and
\* y = n div 32 + (160 - 111) div 2; every pixel lies inside the 128x160
\* display, and the pixels drawn are the 128x111 positions of the picture in
\* row order, each drawn once.
C13_ImageDrawnOnce ==
    LET n == ref.reads - 1
    IN  /\ ref.reads <= 32 * 111
        /\ ref.pixels = 4 * ref.reads
        /\ pc = "done" <=> ref.reads = 32 * 111
        /\ pc = "done" => ref.pixels = 128 * 111
        /\ ref.reads >= 1 =>
              /\ Len(log) = 5
              /\ log[1][1] = "t3_pic" /\ log[1][2] = n
              /\ \A j \in 0 .. 3 :
                    LET px == log[j + 2][2]
                        py == log[j + 2][3]
                        w  == log[1][3]
                    IN  /\ log[j + 2][1] = "drawPixel"
                        /\ px = 4 * (n % 32) + j
                        /\ py = (n \div 32) + (160 - 111) \div 2
                        /\ 0 <= px /\ px < 128
                        /\ 0 <= py /\ py < 160
                        /\ (py - 24) * 128 + px = 4 * n + j
                        /\ log[j + 2][4]
                              = gray_to_color((w \div Pow2(4 * (3 - j))) % 16)

\* C13's case: the last word of the picture, 0x1234, has been read and drawn
\* as the levels 1, 2, 3, 4 at x = 124..127 of the picture's last row
C13_Witness ==
    /\ pc = "done"
    /\ log[1] = EvRead(3551, 4660)
    /\ log[2] = EvDrawPixel(124, 134, gray_to_color(1))
    /\ log[5] = EvDrawPixel(127, 134, gray_to_color(4))

---------------------------------------------------------------------------
(* Claim about gray_to_color, checked under SpecGray *)

\* the colour the claim gives for level l
GrayOf(l) == ((l * 31) \div 15) * 2048 + ((l * 63) \div 15) * 32 + (l * 31) \div 15

\* C14: for every 16-bit v, gray_to_color(v) is (r<<11)+(g<<5)+r with
\* r = L*31 div 15 and g = L*63 div 15, L the low four bits of v; the red and
\* the blue field are equal, r fits 5 bits and g fits 6 bits, the result does
\* not decrease as L grows, L = 0 gives 0x0000 and L = 15 gives 0xFFFF.
C14_GrayToColor ==
    pc = "done" =>
        LET c == log[1][3]
            l == val % 16
        IN  /\ c = GrayOf(l)
            /\ c \div 2048 = (l * 31) \div 15
            /\ c % 32 = c \div 2048
            /\ (c \div 32) % 64 = (l * 63) \div 15
            /\ (l * 31) \div 15 <= 31
            /\ (l * 63) \div 15 <= 63
            /\ l >= 1 => c >= GrayOf(l - 1)
            /\ l = 0 => c = 0
            /\ l = 15 => c = 65535

\* C14's case: gray_to_color has been called with a v above 15 whose low four
\* bits are 8, and has returned 0x8430
C14_Witness ==
    /\ pc = "done"
    /\ val = 4660 + 4
    /\ log[1][3] = 33840

---------------------------------------------------------------------------
(* Claim about the buffer of draw_cells, checked under SpecCells *)

\* C17 as stated: whatever the reading (any defined value, 10^10 among them,
\* or NaN), the text sprintf has written into buf is at most 9 characters
\* long, so that with its terminator it lies within the 10 bytes of buf.
C17_Original ==
    pc \in {"format_check", "fault"} => Len(buf) + 1 <= BufSize

---------------------------------------------------------------------------
(* Claim about the places of the texts, checked under SpecCells *)

\* the rectangle of the j-th character of the text printed by e
CharBox(e, j) == <<e[3] + (j - 1) * 6 * e[2], e[4], 6 * e[2], 8 * e[2]>>

\* the prints of the draw_cell call at place m of the trace
PrintsOf(m) ==
    LET after == {m2 \in Markers : m2 > m}
        last  == IF after = {} THEN Len(log)
                 ELSE (CHOOSE m2 \in after : \A m3 \in after : m2 <= m3) - 1
    IN  SelectSeq(SubSeq(log, m + 1, last), IsPrint)

\* C16: for each cell and each value text draw_cells passes (a text of the
\* field's width or "ERR"), the label is printed at size 1 (6x8 a character),
\* the value at size 2 (12x16), the unit at size 1 at x = value_x +
\* 12*len(value), and every character box of the three lies inside the
\* background region of the cell the call was made for.
C16_TextInsideRegion ==
    \A m \in Markers :
        LET ps == PrintsOf(m)
            r  == Region(log[m][2], log[m][3])
        IN  /\ Len(ps) \in {0, 3}
            /\ (Len(log[m][5]) = FmtWidth(log[m][3] * 2 + log[m][2])
                   \/ log[m][5] = ERR)
            /\ Len(ps) = 3 =>
                  /\ ps[1][2] = 1 /\ ps[1][5] = log[m][6]
                  /\ ps[2][2] = 1 /\ ps[2][5] = log[m][7]
                  /\ ps[3][2] = 2 /\ ps[3][5] = log[m][5]
                  /\ ps[2][3] = ps[3][3] + 12 * Len(ps[3][5])
                  /\ \A n \in 1 .. 3 :
                        \A j \in 1 .. Len(ps[n][5]) : Inside(CharBox(ps[n], j), r)

\* C16's case: the volt cell has been drawn with the four characters "12.1",
\* its unit "V" at x = 117..122 in the region that ends at x = 127
C16_Witness ==
    /\ pc = "done"
    /\ \E n \in 1 .. (Len(log) - 1) :
          /\ log[n] = EvPrint(1, 117, 131, <<"V">>, ST7735_WHITE, ST7735_BLACK)
          /\ log[n + 1][5] = <<"1", "2", ".", "1">>

---------------------------------------------------------------------------
(* Claim about frames in sequence, checked under SpecFrames *)

\* a frame has been drawn and none is being drawn
FrameDone == pc \in {"analogWrite", "delay", "loop"} /\ log # <<>>

\* the arguments of the call of draw_cell for cell k in trace t
CallIn(t, k) ==
    LET e == SelectSeq(t, IsDrawCell)[k + 1]
    IN  [unit |-> e[7], val |-> e[5], label |-> e[6], bg |-> e[4],
         pos_x |-> e[2], pos_y |-> e[3]]

\* the characters of a cell cleared and then drawn by the call c
FullRedraw(c) ==
    Paint(Paint(Paint({}, CellPrints(c)[1]), CellPrints(c)[2]), CellPrints(c)[3])

\* C15: after every frame of any sequence of reading sets each cell shows
\* what clearing it to its colour of this frame and drawing its label, value
\* and unit would show: that background, those characters whole, and no
\* other character or part of one; and a cell whose value text is not as long
\* as in the frame before has had its background filled in this frame.
C15_PartialIsFullRedraw ==
    FrameDone =>
        /\ \A k \in Cells :
              LET c == CallIn(log, k)
                  r == Region(c.pos_x, c.pos_y)
              IN  /\ screen[k] = c.bg
                  /\ bg_cache[k] = c.bg
                  /\ {g \in glyphs : Overlap(GlyphBox(g), r)} = FullRedraw(c)
                  /\ ref # <<>> =>
                        (Len(CallIn(ref, k).val) # Len(c.val) =>
                            \E n \in 1 .. Len(CellEvents(log, k)) :
                                IsFillRect(CellEvents(log, k)[n]))
        /\ glyphs = UNION {FullRedraw(CallIn(log, k)) : k \in Cells}

\* C15's case: the volt cell showed "12.1" with its unit at x = 117 in the
\* frame before and shows "ERR" with its unit at x = 105 now, and nothing is
\* left at x = 117
C15_Witness ==
    /\ FrameDone
    /\ ref # <<>>
    /\ CallIn(ref, 5).val = <<"1", "2", ".", "1">>
    /\ CallIn(log, 5).val = ERR
    /\ <<105, 131, 1, "V", ST7735_RED>> \in glyphs
    /\ ~ \E g \in glyphs : g[1] = 117 /\ g[2] = 131

---------------------------------------------------------------------------
(* Claim about the colour and the number shown, checked under SpecCells *)

DigitVal(ch) == CHOOSE d \in 0 .. 9 : Digit(d) = ch

RECURSIVE ParseDigits(_)
ParseDigits(t) ==
    IF t = <<>> THEN 0
    ELSE 10 * ParseDigits(SubSeq(t, 1, Len(t) - 1)) + DigitVal(t[Len(t)])

\* the number a value text of 0 decimals reads
ShownNumber(t) ==
    LET u == Strip(t)
    IN  IF Head(u) = "-" THEN - ParseDigits(Tail(u)) ELSE ParseDigits(u)

\* cell k shows a number for a reading held in thousandths
ShowsNumber(k) ==
    /\ Rendered(k)
    /\ RenderedText(k) # ERR
    /\ Reading(data, k).kind = "num"

\* the lower bounds of the bands of oil_temp (k = 0) and water_temp (k = 2), in
\* thousandths
Thresholds(k) == IF k = 0 THEN {50000, 100000, 115000} ELSE {50000, 90000, 100000}

\* C18 as stated: for oil_temp and water_temp, a cell whose value text reads
\* the number N has the colour of the threshold band of N.
C18_Original ==
    \A k \in {0, 2} :
        ShowsNumber(k) =>
            RenderedColor(k) = Band(k, Num(1000 * ShownNumber(RenderedText(k))))

\* C18 amended: for oil_temp and water_temp, a cell whose value text reads
\* the number N has the colour of the threshold band of the reading, which is
\* the band of N whenever the reading is at least N, and also when it is
\* below N unless N is a threshold: a reading that is within one half below a
\* threshold is shown as the threshold in the colour of the band below it.
C18_ColorIsBandOfReading ==
    \A k \in {0, 2} :
        ShowsNumber(k) =>
            LET v == Reading(data, k)
                n == 1000 * ShownNumber(RenderedText(k))
            IN  /\ RenderedColor(k) = Band(k, v)
                /\ v.m >= n => RenderedColor(k) = Band(k, Num(n))
                /\ (v.m < n /\ n \notin Thresholds(k)) =>
                      RenderedColor(k) = Band(k, Num(n))
                /\ (v.m < n /\ n \in Thresholds(k)) =>
                      /\ n - 500 <= v.m
                      /\ RenderedColor(k) = Band(k, Num(n - 1))
                      /\ RenderedColor(k) # Band(k, Num(n))

\* C18's case: a water temperature of 89.5 has been drawn as " 90" on black
C18_Witness ==
    /\ pc = "done"
    /\ data.water_temp = Num(89500)
    /\ RenderedText(2) = <<" ", "9", "0">>
    /\ RenderedColor(2) = ST7735_BLACK

---------------------------------------------------------------------------
(* Claim about the placeholder value source, checked under Spec *)

\* v is a reading of lo/1000 to hi/1000
Within(v, lo, hi) == v.kind = "num" /\ lo <= v.m /\ v.m <= hi

\* C19: with the placeholder value source all six cells are drawn as "ERR" on
\* red in each of the first five frames; from the sixth frame on oil_temp is
\* in [-20, 130], oil_press in [0, 5.0], water_temp in [40, 60], rpm in
\* [950, 2750] and volt is 12.0 or 12.1, no cell but BOOST is drawn as "ERR",
\* and BOOST shows "0.9" while the tick count divided by 20 is even and "ERR"
\* while it is odd (the tick count being the number of calls of update_data
\* before this frame's).
C19_PlaceholderFrames ==
    (pc \in {"analogWrite", "delay", "loop"} /\ counter >= 1) =>
        LET tick == counter - 1
        IN  /\ tick < 5 =>
                  \A k \in Cells :
                      RenderedText(k) = ERR /\ RenderedColor(k) = ST7735_RED
            /\ tick >= 5 =>
                  /\ Within(data.oil_temp, -20000, 130000)
                  /\ Within(data.oil_press, 0, 5000)
                  /\ Within(data.water_temp, 40000, 60000)
                  /\ Within(data.rpm, 950000, 2750000)
                  /\ data.volt \in {Num(12000), Num(12100)}
                  /\ \A k \in Cells \ {3} : RenderedText(k) # ERR
                  /\ IF (tick \div 20) % 2 = 0
                     THEN data.boost = Num(900)
                          /\ RenderedText(3) = <<"0", ".", "9">>
                     ELSE isnan(data.boost)
                          /\ RenderedText(3) = ERR
                          /\ RenderedColor(3) = ST7735_RED

\* C19's case: the frame of tick 150 has been drawn, the oil temperature at
\* its peak of 130, the boost reading NaN, BOOST drawn as "ERR" and OIL as
\* "130"
C19_Witness ==
    /\ pc = "delay"
    /\ counter = 151
    /\ data.oil_temp = Num(130000)
    /\ RenderedText(0) = <<"1", "3", "0">>
    /\ isnan(data.boost)
    /\ RenderedText(3) = ERR

=============================================================================
